---- MODULE Spec2Model ----
(***************************************************************************)
(* Model of the options page of gerrit-monitor (src/src/options.js) and of *)
(* the validation patterns of its configuration module                     *)
(* (src/unnamed/part_000).                                                 *)
(*                                                                         *)
(* A JavaScript string is a sequence of one-character strings, so that the *)
(* regular expressions are computed character by character.  The status    *)
(* text is a sequence of string pieces whose concatenation is the text.    *)
(***************************************************************************)
EXTENDS Naturals, Sequences, FiniteSets

(***************************************************************************)
(* Bounds of the model.                                                    *)
(***************************************************************************)
\* longest instance list and longest group-name list of a persisted document
MaxDocLen == 2
\* most status-clearing timers pending at once
MaxTimers == 2
\* most save runs in flight at once on a page where the saves are watched
\* one at a time
MaxInFlight == 1
\* most save runs in flight at once on a page where the saves overlap
MaxOverlap == 2

(***************************************************************************)
(* Strings.                                                                *)
(***************************************************************************)
Empty == <<>>

HostB     == <<"h","t","t","p","s",":","/","/","b","/","c">>
HostSlash == <<"h","t","t","p",":","/","/","a","/">>
HostFtp   == <<"f","t","p",":","/","/","a">>

NameA == <<"A">>
NameB == <<"B">>

GroupFull  == <<"f","o","o","@","b","a","r",".","b","a","z">>
GroupSlash == <<"f","o","o","/","b","a","r">>
GroupShort == <<"a","b">>

\* the hosts, names and group names the user types
TypedHosts  == {HostB, HostSlash, HostFtp}
TypedNames  == {NameA, Empty}
TypedGroups == {GroupFull, GroupSlash, GroupShort}

\* the entries a persisted document is made of
DocHosts  == {HostB, HostFtp}
DocNames  == {NameB}
DocGroups == {GroupFull, GroupShort}

(***************************************************************************)
(* config.js: the patterns.                                                *)
(***************************************************************************)
Letters ==
  {"a","b","c","d","e","f","g","h","i","j","k","l","m",
   "n","o","p","q","r","s","t","u","v","w","x","y","z",
   "A","B","C","D","E","F","G","H","I","J","K","L","M",
   "N","O","P","Q","R","S","T","U","V","W","X","Y","Z"}
Digits == {"0","1","2","3","4","5","6","7","8","9"}

\* WORD_CHS without its quantifier: the class [a-zA-Z0-9_-]
WORD_CHS == Letters \cup Digits \cup {"_", "-"}

\* what an unescaped "." does not match
LineTerminators == {"\n", "\r"}

AllIn(s, from, to, set) == \A p \in from..to : s[p] \in set

\* the end of the longest run of characters other than "/" that starts at
\* position p of s (p - 1 when the run is empty): [^/]* and [^/]+ are greedy
RECURSIVE RunEnd(_, _)
RunEnd(s, p) ==
  IF p <= Len(s) /\ s[p] # "/" THEN RunEnd(s, p + 1) ELSE p - 1

\* (/[^/]+)* from position p of s: the end of the last segment taken
RECURSIVE SegmentsEnd(_, _)
SegmentsEnd(s, p) ==
  IF p + 1 <= Len(s) /\ s[p] = "/" /\ s[p + 1] # "/"
    THEN SegmentsEnd(s, RunEnd(s, p + 1) + 1)
    ELSE p - 1

\* https?:// at the start of s: the position after it, 0 when it is absent
SchemeEnd(s) ==
  IF Len(s) >= 4 /\ SubSeq(s, 1, 4) = <<"h","t","t","p">>
    THEN IF Len(s) >= 8 /\ SubSeq(s, 5, 8) = <<"s",":","/","/">> THEN 9
         ELSE IF Len(s) >= 7 /\ SubSeq(s, 5, 7) = <<":","/","/">> THEN 8
         ELSE 0
    ELSE 0

\* ORIGIN_REGEXP.exec(s): matched is match !== null, whole is match[0] and
\* origin is match[1]
ORIGIN_REGEXP(s) ==
  LET start == SchemeEnd(s)
      e1    == RunEnd(s, start)
  IN  IF start = 0
        THEN [matched |-> FALSE, whole |-> Empty, origin |-> Empty]
        ELSE [matched |-> TRUE,
              whole   |-> SubSeq(s, 1, SegmentsEnd(s, e1 + 1)),
              origin  |-> SubSeq(s, 1, e1)]

\* GROUP_NAME_REGEXP.exec(s) !== null.  The template literal of
\* GROUP_NAME_PATTERN turns the escape \. into a plain ".", so the pattern is
\* ^[a-zA-Z0-9_-]+@*[a-zA-Z0-9_-]+.*[a-zA-Z0-9_-]+$ : a run of word
\* characters, any number of "@", a run of word characters, any characters,
\* a run of word characters.  The flag i adds nothing to the class.
GROUP_NAME_REGEXP(s) ==
  \E i \in 1..Len(s) : \E j \in i..Len(s) : \E k \in (j + 1)..Len(s) :
  \E l \in k..(Len(s) - 1) :
    /\ AllIn(s, 1, i, WORD_CHS)
    /\ AllIn(s, i + 1, j, {"@"})
    /\ AllIn(s, j + 1, k, WORD_CHS)
    /\ \A p \in (k + 1)..l : s[p] \notin LineTerminators
    /\ AllIn(s, l + 1, Len(s), WORD_CHS)

(***************************************************************************)
(* The state of the page.                                                  *)
(***************************************************************************)
VARIABLES
  instances,   \* this.instances_: sequence of [host, name, enabled]
  checked,     \* checked[i]: the checkbox 'instance-' + (i - 1) is checked
  groupNames,  \* this.groupNames_
  status,      \* innerText of the element 'status'
  timers,      \* number of pending timers of setStatusText
  hostField,   \* value of the input 'add-button-host'
  nameField,   \* value of the input 'add-button-name'
  groupField,  \* value of the input 'add-group-name'
  loadState,   \* the promise of loadOptions: idle, pending, resolved, rejected
  fetched,     \* the document gerrit.fetchOptions() resolves with
  stored,      \* the durable document
  allowed,     \* the granted allowlist
  saves        \* the save runs in flight, oldest first

vars == <<instances, checked, groupNames, status, timers, hostField, nameField,
          groupField, loadState, fetched, stored, allowed, saves>>

model  == <<instances, checked, groupNames>>
fields == <<hostField, nameField, groupField>>
durable == <<stored, allowed>>

(***************************************************************************)
(* Status texts.                                                           *)
(***************************************************************************)
StatusDuplicate        == <<"Already have this group name">>
StatusSaved            == <<"Options saved.">>
StatusNothing          == <<"Nothing to save">>
StatusIncorrectGroup   == <<"Incorrect group name values.">>
StatusIncorrectInstance == <<"Incorrect instance values.">>

\* browser.saveOptions(doc) resolved: the durable document is doc, whole
StoredAfterSave(doc) == doc

\* browser.setAllowedOrigins(origins) resolved: the allowlist is origins
AllowedAfterSet(origins) == origins

\* the document gerrit.fetchOptions() resolves with when the durable document
\* is doc
FetchedFrom(doc) == doc

\* the values the storage layer rejects a request with
ErrPermission == [name |-> "Error", message |-> "permission denied"]
ErrStorage    == [name |-> "Error", message |-> "storage failed"]

\* String(error) of an Error object
ErrorString(error) == <<error.name, ": ", error.message>>

\* invalidGroups.join(', ')
RECURSIVE Join(_)
Join(names) ==
  IF names = <<>> THEN <<>>
  ELSE IF Len(names) = 1 THEN names[1]
  ELSE names[1] \o <<", ">> \o Join(Tail(names))

(***************************************************************************)
(* Options: the operations on the two lists.                               *)
(***************************************************************************)
\* the first index of insts whose host is host, 0 when there is none
FindHost(insts, host) ==
  IF \E i \in 1..Len(insts) : insts[i].host = host
    THEN CHOOSE i \in 1..Len(insts) :
           /\ insts[i].host = host
           /\ \A j \in 1..(i - 1) : insts[j].host # host
    ELSE 0

\* the checked state of a checkbox built with setAttribute('checked', enabled)
CheckboxBuilt(enabled) == enabled

\* addGerritInstance, were it to push without looking for the host
addGerritInstancePushing(insts, chk, host, name, enabled) ==
  [instances |-> Append(insts, [host |-> host, name |-> name,
                                enabled |-> enabled]),
   checked   |-> Append(chk, enabled)]

\* addGerritInstance, were it to enable the instance it pushes
addGerritInstanceEnabling(insts, chk, host, name, enabled) ==
  IF \E i \in 1..Len(insts) : insts[i].host = host
    THEN [instances |-> [i \in 1..Len(insts) |->
                          IF insts[i].host = host
                            THEN [host |-> host, name |-> name, enabled |-> TRUE]
                            ELSE insts[i]],
          checked   |-> [i \in 1..Len(insts) |-> insts[i].host = host \/ chk[i]]]
    ELSE [instances |-> Append(insts, [host |-> host, name |-> name,
                                       enabled |-> TRUE]),
          checked   |-> Append(chk, TRUE)]

\* addGerritInstance, were it to store the enabled of the call in an instance
\* it finds
addGerritInstanceStoring(insts, chk, host, name, enabled) ==
  LET i == FindHost(insts, host)
  IN  IF i # 0
        THEN [instances |-> [insts EXCEPT ![i].enabled = enabled,
                                          ![i].name = name],
              checked   |-> [chk EXCEPT ![i] = enabled]]
        ELSE [instances |-> Append(insts, [host |-> host, name |-> name,
                                           enabled |-> enabled]),
              checked   |-> Append(chk, enabled)]

\* addGerritInstance, were it to move an instance it finds to the end of the
\* list
addGerritInstanceMoving(insts, chk, host, name, enabled) ==
  LET i == FindHost(insts, host)
  IN  IF i # 0
        THEN [instances |-> Append(SubSeq(insts, 1, i - 1)
                                     \o SubSeq(insts, i + 1, Len(insts)),
                                   [host |-> host, name |-> name,
                                    enabled |-> TRUE]),
              checked   |-> Append(SubSeq(chk, 1, i - 1)
                                     \o SubSeq(chk, i + 1, Len(chk)), TRUE)]
        ELSE [instances |-> Append(insts, [host |-> host, name |-> name,
                                           enabled |-> enabled]),
              checked   |-> Append(chk, enabled)]

\* addGerritInstance(host, name, enabled) on the list insts and the
\* checkboxes chk
addGerritInstance(insts, chk, host, name, enabled) ==
  LET i == FindHost(insts, host)
  IN  IF i # 0
        THEN [instances |-> [insts EXCEPT ![i].enabled = TRUE, ![i].name = name],
              checked   |-> [chk EXCEPT ![i] = TRUE]]
        ELSE [instances |-> Append(insts, [host |-> host, name |-> name,
                                           enabled |-> enabled]),
              checked   |-> Append(chk, CheckboxBuilt(enabled))]

\* addGroupName, were the return of its callback only to leave the callback,
\* with nothing raised: the push follows
addGroupNamePushing(names, groupName) ==
  [groupNames |-> Append(names, groupName), threw |-> FALSE]

\* addGroupName(groupName) on the list names.  The callback of forEach is a
\* plain function of a module, so its this is undefined: on the first equal
\* name, this.setStatusText raises a TypeError that leaves addGroupName
\* before the push.
addGroupName(names, groupName) ==
  IF \E i \in 1..Len(names) : names[i] = groupName
    THEN [groupNames |-> names, threw |-> TRUE]
    ELSE [groupNames |-> Append(names, groupName), threw |-> FALSE]

\* applyInstanceOptions(list) on the list insts and the checkboxes chk
RECURSIVE applyInstanceOptions(_, _, _)
applyInstanceOptions(insts, chk, list) ==
  IF list = <<>> THEN [instances |-> insts, checked |-> chk]
  ELSE LET r == addGerritInstance(insts, chk, list[1].host, list[1].name,
                                  list[1].enabled)
       IN  applyInstanceOptions(r.instances, r.checked, Tail(list))

\* applyGroupNameOptions(list) on the list names: the error of addGroupName
\* ends the loop
RECURSIVE applyGroupNameOptions(_, _)
applyGroupNameOptions(names, list) ==
  IF list = <<>> THEN [groupNames |-> names, threw |-> FALSE]
  ELSE LET r == addGroupName(names, list[1])
       IN  IF r.threw THEN r ELSE applyGroupNameOptions(r.groupNames, Tail(list))

\* the origins of saveInstanceOptions, were it not to test instance.enabled
RECURSIVE OriginsOfAll(_)
OriginsOfAll(insts) ==
  IF insts = <<>> THEN <<>>
  ELSE LET match == ORIGIN_REGEXP(insts[1].host)
       IN  IF match.matched
             THEN <<match.origin \o <<"/", "*">>>> \o OriginsOfAll(Tail(insts))
             ELSE OriginsOfAll(Tail(insts))

\* the origins saveInstanceOptions collects from the list insts
RECURSIVE Origins(_)
Origins(insts) ==
  IF insts = <<>> THEN <<>>
  ELSE LET match == ORIGIN_REGEXP(insts[1].host)
       IN  IF insts[1].enabled /\ match.matched
             THEN <<match.origin \o <<"/", "*">>>> \o Origins(Tail(insts))
             ELSE Origins(Tail(insts))

\* the names of the list that fail GROUP_NAME_REGEXP, in order
RECURSIVE InvalidGroups(_)
InvalidGroups(names) ==
  IF names = <<>> THEN <<>>
  ELSE IF GROUP_NAME_REGEXP(names[1]) THEN InvalidGroups(Tail(names))
  ELSE <<names[1]>> \o InvalidGroups(Tail(names))

\* the names of the list that pass GROUP_NAME_REGEXP, in order
RECURSIVE ValidGroups(_)
ValidGroups(names) ==
  IF names = <<>> THEN <<>>
  ELSE IF GROUP_NAME_REGEXP(names[1]) THEN <<names[1]>> \o ValidGroups(Tail(names))
  ELSE ValidGroups(Tail(names))

\* the object options of the two save operations, as saveOptions reads it
Document == [instances |-> instances, groupNames |-> groupNames]

EmptyDocument == [instances |-> <<>>, groupNames |-> <<>>]

\* setStatusText, were it to set the text without starting a timer
setStatusTextUntimed(text) ==
  /\ timers < MaxTimers
  /\ status' = text
  /\ timers' = timers

\* setStatusText(text)
setStatusText(text) ==
  /\ timers < MaxTimers
  /\ status' = text
  /\ timers' = timers + 1

\* the callback of the timer of setStatusText
TimerFire ==
  /\ timers > 0
  /\ status' = <<>>
  /\ timers' = timers - 1
  /\ UNCHANGED <<model, fields, loadState, fetched, durable, saves>>

(***************************************************************************)
(* The handlers of the page.                                               *)
(***************************************************************************)
\* the sequence s without its element i
Remove(s, i) == SubSeq(s, 1, i - 1) \o SubSeq(s, i + 1, Len(s))

\* the sequences over set of length at most n
SeqsUpTo(set, n) == UNION {[1..k -> set] : k \in 0..n}

\* loadOptions: the callback of fetchOptions().then
LoadResolve ==
  /\ loadState = "pending"
  /\ LET r == applyInstanceOptions(instances, checked, fetched.instances)
         g == applyGroupNameOptions(groupNames, fetched.groupNames)
     IN  /\ instances' = r.instances
         /\ checked' = r.checked
         /\ groupNames' = g.groupNames
         /\ loadState' = IF g.threw THEN "threw" ELSE "resolved"
  /\ UNCHANGED <<status, timers, fields, fetched, durable, saves>>

\* loadOptions: fetchOptions() rejects, and nothing handles it
LoadReject ==
  /\ loadState = "pending"
  /\ loadState' = "failed"
  /\ UNCHANGED <<model, status, timers, fields, fetched, durable, saves>>

\* the change listener of the checkbox of instance i, after the user's click
\* has flipped the checkbox
ToggleCheckbox(i) ==
  /\ i \in 1..Len(instances)
  /\ checked' = [checked EXCEPT ![i] = ~checked[i]]
  /\ instances' = [instances EXCEPT ![i].enabled = ~checked[i]]
  /\ UNCHANGED <<groupNames, status, timers, fields, loadState, fetched,
                 durable, saves>>

\* the click listener of 'add-group-button', the field holding name
ClickAddGroup(name) ==
  IF GROUP_NAME_REGEXP(name)
    THEN LET r == addGroupName(groupNames, name)
         IN  /\ groupNames' = r.groupNames
             /\ groupField' = IF r.threw THEN name ELSE Empty
             /\ UNCHANGED <<instances, checked, status, timers, hostField,
                            nameField, loadState, fetched, durable, saves>>
    ELSE /\ setStatusText(StatusIncorrectGroup)
         /\ groupField' = name
         /\ UNCHANGED <<model, hostField, nameField, loadState, fetched,
                        durable, saves>>

\* the test of the click listener of 'add-button', were it to accept a host
\* of which the pattern matches a prefix only
InstanceInputValidPrefix(host, name) ==
  ORIGIN_REGEXP(host).matched /\ Len(name) # 0

\* host_is_valid && name.length !== 0 of the click listener of 'add-button'
InstanceInputValid(host, name) ==
  LET match == ORIGIN_REGEXP(host)
  IN  /\ match.matched
      /\ Len(match.whole) = Len(host)
      /\ Len(name) # 0

\* the click listener of 'add-button', the fields holding host and name
ClickAddInstance(host, name) ==
  IF InstanceInputValid(host, name)
    THEN LET r == addGerritInstance(instances, checked, host, name, TRUE)
         IN  /\ instances' = r.instances
             /\ checked' = r.checked
             /\ hostField' = Empty
             /\ nameField' = Empty
             /\ UNCHANGED <<groupNames, status, timers, groupField, loadState,
                            fetched, durable, saves>>
    ELSE /\ setStatusText(StatusIncorrectInstance)
         /\ hostField' = host
         /\ nameField' = name
         /\ UNCHANGED <<model, groupField, loadState, fetched, durable, saves>>

\* saveInstanceOptions, were it to call browser.saveOptions without waiting
\* for browser.setAllowedOrigins
ClickSaveInstanceUnchained ==
  /\ saves' = Append(saves, [kind |-> "instance", pc |-> "persist",
                             origins |-> Origins(instances),
                             doc |-> Document])
  /\ UNCHANGED <<model, status, timers, fields, loadState, fetched, durable>>

\* saveInstanceOptions, up to the call of browser.setAllowedOrigins
ClickSaveInstance ==
  /\ saves' = Append(saves, [kind |-> "instance", pc |-> "allow",
                             origins |-> Origins(instances),
                             doc |-> EmptyDocument])
  /\ UNCHANGED <<model, status, timers, fields, loadState, fetched, durable>>

\* setAllowedOrigins resolving, were the allowlist to stay as it was
SetAllowedOriginsResolveKeeping(i) ==
  /\ i \in 1..Len(saves)
  /\ saves[i].pc = "allow"
  /\ allowed' = allowed
  /\ saves' = [saves EXCEPT ![i].pc = "persist", ![i].doc = Document]
  /\ UNCHANGED <<model, status, timers, fields, loadState, fetched, stored>>

\* setAllowedOrigins of run i resolves: the first then-callback of
\* saveInstanceOptions calls browser.saveOptions(options)
SetAllowedOriginsResolve(i) ==
  /\ i \in 1..Len(saves)
  /\ saves[i].pc = "allow"
  /\ allowed' = AllowedAfterSet(saves[i].origins)
  /\ saves' = [saves EXCEPT ![i].pc = "persist", ![i].doc = Document]
  /\ UNCHANGED <<model, status, timers, fields, loadState, fetched, stored>>

\* setAllowedOrigins of run i rejects: the catch-callback of
\* saveInstanceOptions
SetAllowedOriginsReject(i) ==
  /\ i \in 1..Len(saves)
  /\ saves[i].pc = "allow"
  /\ setStatusText(ErrorString(ErrPermission))
  /\ saves' = Remove(saves, i)
  /\ UNCHANGED <<model, fields, loadState, fetched, durable>>

\* saveOptions resolving, were the write to replace only the list the save
\* operation of run i is named after
SaveOptionsResolveMerging(i) ==
  /\ i \in 1..Len(saves)
  /\ saves[i].pc = "persist"
  /\ stored' = IF saves[i].kind = "instance"
                 THEN [stored EXCEPT !.instances = saves[i].doc.instances]
                 ELSE [stored EXCEPT !.groupNames = saves[i].doc.groupNames]
  /\ setStatusText(StatusSaved)
  /\ saves' = Remove(saves, i)
  /\ UNCHANGED <<model, fields, loadState, fetched, allowed>>

\* saveOptions of run i resolves: the document is written and the
\* then-callback of the save operation runs
SaveOptionsResolve(i) ==
  /\ i \in 1..Len(saves)
  /\ saves[i].pc = "persist"
  /\ stored' = StoredAfterSave(saves[i].doc)
  /\ setStatusText(StatusSaved)
  /\ saves' = Remove(saves, i)
  /\ UNCHANGED <<model, fields, loadState, fetched, allowed>>

\* saveOptions of run i rejects: the catch-callback of the save operation
SaveOptionsReject(i) ==
  /\ i \in 1..Len(saves)
  /\ saves[i].pc = "persist"
  /\ setStatusText(ErrorString(ErrStorage))
  /\ saves' = Remove(saves, i)
  /\ UNCHANGED <<model, fields, loadState, fetched, durable>>

\* saveGroupNameOptions, were it to persist an empty group-name list
ClickSaveGroupNamePersistingEmpty ==
  LET invalidGroups == InvalidGroups(groupNames)
  IN  IF Len(invalidGroups) > 0
        THEN /\ setStatusText(<<"Invalid group names: ">> \o Join(invalidGroups))
             /\ UNCHANGED <<model, fields, loadState, fetched, durable, saves>>
      ELSE /\ saves' = Append(saves, [kind |-> "group", pc |-> "persist",
                                      origins |-> <<>>, doc |-> Document])
           /\ UNCHANGED <<model, status, timers, fields, loadState, fetched,
                          durable>>

\* saveGroupNameOptions, up to the call of browser.saveOptions
ClickSaveGroupName ==
  LET groups        == ValidGroups(groupNames)
      invalidGroups == InvalidGroups(groupNames)
  IN  IF Len(invalidGroups) > 0
        THEN /\ setStatusText(<<"Invalid group names: ">> \o Join(invalidGroups))
             /\ UNCHANGED <<model, fields, loadState, fetched, durable, saves>>
      ELSE IF Len(groups) = 0
        THEN /\ setStatusText(StatusNothing)
             /\ UNCHANGED <<model, fields, loadState, fetched, durable, saves>>
      ELSE /\ saves' = Append(saves, [kind |-> "group", pc |-> "persist",
                                      origins |-> <<>>, doc |-> Document])
           /\ UNCHANGED <<model, status, timers, fields, loadState, fetched,
                          durable>>

(***************************************************************************)
(* The page: onLoaded has called loadOptions and wired the listeners.      *)
(***************************************************************************)
DocInstances == [host : DocHosts, name : DocNames, enabled : BOOLEAN]

InitDocs == [instances  : SeqsUpTo(DocInstances, MaxDocLen),
             groupNames : SeqsUpTo(DocGroups, MaxDocLen)]

\* the state onLoaded leaves when the durable document is doc
InitWith(doc) ==
  /\ instances = <<>>
  /\ checked = <<>>
  /\ groupNames = <<>>
  /\ status = <<>>
  /\ timers = 0
  /\ hostField = Empty
  /\ nameField = Empty
  /\ groupField = Empty
  /\ loadState = "pending"
  /\ fetched = FetchedFrom(doc)
  /\ stored = doc
  /\ allowed = Origins(doc.instances)
  /\ saves = <<>>

Init == \E doc \in InitDocs : InitWith(doc)

Next ==
  \/ LoadResolve
  \/ LoadReject
  \/ \E i \in 1..Len(instances) : ToggleCheckbox(i)
  \/ \E name \in TypedGroups : ClickAddGroup(name)
  \/ \E host \in TypedHosts, name \in TypedNames : ClickAddInstance(host, name)
  \/ ClickSaveInstance /\ Len(saves') <= MaxInFlight
  \/ ClickSaveGroupName /\ Len(saves') <= MaxInFlight
  \/ \E i \in 1..Len(saves) : SetAllowedOriginsResolve(i)
  \/ \E i \in 1..Len(saves) : SetAllowedOriginsReject(i)
  \/ \E i \in 1..Len(saves) : SaveOptionsResolve(i)
  \/ \E i \in 1..Len(saves) : SaveOptionsReject(i)
  \/ TimerFire

\* the whole page.  The specifications below are the same page with the user
\* confined to one group of controls.
Spec == Init /\ [][Next]_vars

\* the documents the instance list is edited on: every instance list, with
\* no group name or with two
InstanceDocs == [instances  : SeqsUpTo(DocInstances, MaxDocLen),
                 groupNames : {<<>>, <<GroupFull, GroupShort>>}]

InitInstances == \E doc \in InstanceDocs : InitWith(doc)

\* the page when the user only edits the instance list
NextInstances ==
  \/ LoadResolve
  \/ LoadReject
  \/ \E i \in 1..Len(instances) : ToggleCheckbox(i)
  \/ \E host \in TypedHosts, name \in TypedNames : ClickAddInstance(host, name)
  \/ TimerFire

SpecInstances == InitInstances /\ [][NextInstances]_vars

\* the documents the group-name list is edited on: every group-name list,
\* with no instance or with one
GroupDocs == [instances  : {<<>>, <<[host |-> HostB, name |-> NameB,
                                     enabled |-> TRUE]>>},
              groupNames : SeqsUpTo(DocGroups, MaxDocLen)]

InitGroups == \E doc \in GroupDocs : InitWith(doc)

\* the page when the user only edits the group-name list
NextGroups ==
  \/ LoadResolve
  \/ LoadReject
  \/ \E name \in TypedGroups : ClickAddGroup(name)
  \/ TimerFire

SpecGroups == InitGroups /\ [][NextGroups]_vars

\* the documents the save operations are run on: an enabled and a disabled
\* instance (one host outside the origin pattern) with a valid group name, a
\* document with a group name GROUP_NAME_REGEXP rejects, one with the group
\* name "foo/bar", and the empty document
SaveDocs ==
  { [instances  |-> << [host |-> HostB, name |-> NameB, enabled |-> TRUE],
                       [host |-> HostFtp, name |-> NameB, enabled |-> FALSE] >>,
     groupNames |-> <<GroupFull>>],
    [instances  |-> << [host |-> HostB, name |-> NameB, enabled |-> FALSE] >>,
     groupNames |-> <<GroupFull, GroupShort>>],
    [instances  |-> <<>>, groupNames |-> <<GroupSlash>>],
    EmptyDocument }

InitSave == \E doc \in SaveDocs : InitWith(doc)

\* the page when the user only toggles checkboxes and saves
NextSave ==
  \/ LoadResolve
  \/ LoadReject
  \/ \E i \in 1..Len(instances) : ToggleCheckbox(i)
  \/ ClickSaveInstance /\ Len(saves') <= MaxInFlight
  \/ ClickSaveGroupName /\ Len(saves') <= MaxInFlight
  \/ \E i \in 1..Len(saves) : SetAllowedOriginsResolve(i)
  \/ \E i \in 1..Len(saves) : SetAllowedOriginsReject(i)
  \/ \E i \in 1..Len(saves) : SaveOptionsResolve(i)
  \/ \E i \in 1..Len(saves) : SaveOptionsReject(i)
  \/ TimerFire

SpecSave == InitSave /\ [][NextSave]_vars

\* the document the status line is watched on
StatusDocs ==
  { [instances  |-> << [host |-> HostB, name |-> NameB, enabled |-> TRUE] >>,
     groupNames |-> <<GroupFull>>] }

InitStatus == \E doc \in StatusDocs : InitWith(doc)

\* the page when the user adds instances and saves: every status text but
\* the one of the add-group click is set
NextStatus ==
  \/ LoadResolve
  \/ LoadReject
  \/ \E host \in TypedHosts, name \in TypedNames : ClickAddInstance(host, name)
  \/ ClickSaveInstance /\ Len(saves') <= MaxInFlight
  \/ ClickSaveGroupName /\ Len(saves') <= MaxInFlight
  \/ \E i \in 1..Len(saves) : SetAllowedOriginsResolve(i)
  \/ \E i \in 1..Len(saves) : SetAllowedOriginsReject(i)
  \/ \E i \in 1..Len(saves) : SaveOptionsResolve(i)
  \/ \E i \in 1..Len(saves) : SaveOptionsReject(i)
  \/ TimerFire

\* the event loop runs the callback of every timer that has expired
SpecStatus == InitStatus /\ [][NextStatus]_vars /\ WF_vars(TimerFire)

\* the document the overlapping saves are run on
OverlapDocs ==
  { [instances  |-> << [host |-> HostB, name |-> NameB, enabled |-> TRUE] >>,
     groupNames |-> <<GroupFull>>] }

\* the state of the page once loadOptions has restored the document doc
LoadedWith(doc) ==
  /\ instances = doc.instances
  /\ checked = [i \in 1..Len(doc.instances) |->
                  CheckboxBuilt(doc.instances[i].enabled)]
  /\ groupNames = doc.groupNames
  /\ status = <<>>
  /\ timers = 0
  /\ hostField = Empty
  /\ nameField = Empty
  /\ groupField = Empty
  /\ loadState = "resolved"
  /\ fetched = FetchedFrom(doc)
  /\ stored = doc
  /\ allowed = Origins(doc.instances)
  /\ saves = <<>>

InitOverlap == \E doc \in OverlapDocs : LoadedWith(doc)

\* the loaded page when the user toggles the checkbox and clicks the save
\* buttons again before the earlier saves have completed
NextOverlap ==
  \/ \E i \in 1..Len(instances) : ToggleCheckbox(i)
  \/ ClickSaveInstance /\ Len(saves') <= MaxOverlap
  \/ ClickSaveGroupName /\ Len(saves') <= MaxOverlap
  \/ \E i \in 1..Len(saves) : SetAllowedOriginsResolve(i)
  \/ \E i \in 1..Len(saves) : SetAllowedOriginsReject(i)
  \/ \E i \in 1..Len(saves) : SaveOptionsResolve(i)
  \/ \E i \in 1..Len(saves) : SaveOptionsReject(i)
  \/ TimerFire

SpecOverlap == InitOverlap /\ [][NextOverlap]_vars

\* the page when the user toggles checkboxes and clicks
\* 'save-instance-button' again only when the earlier run has completed
NextResave ==
  \/ LoadResolve
  \/ LoadReject
  \/ \E i \in 1..Len(instances) : ToggleCheckbox(i)
  \/ ClickSaveInstance /\ saves = <<>>
  \/ \E i \in 1..Len(saves) : SetAllowedOriginsResolve(i)
  \/ \E i \in 1..Len(saves) : SetAllowedOriginsReject(i)
  \/ \E i \in 1..Len(saves) : SaveOptionsResolve(i)
  \/ \E i \in 1..Len(saves) : SaveOptionsReject(i)
  \/ TimerFire

SpecResave == InitSave /\ [][NextResave]_vars

\* the document both lists are edited on
EditDocs ==
  { [instances  |-> << [host |-> HostFtp, name |-> NameB, enabled |-> FALSE],
                       [host |-> HostB, name |-> NameB, enabled |-> FALSE] >>,
     groupNames |-> <<GroupFull, GroupShort>>] }

InitEdits == \E doc \in EditDocs : InitWith(doc)

\* the page when the user edits both lists and does not save
NextEdits ==
  \/ LoadResolve
  \/ LoadReject
  \/ \E i \in 1..Len(instances) : ToggleCheckbox(i)
  \/ \E name \in TypedGroups : ClickAddGroup(name)
  \/ \E host \in {HostB}, name \in TypedNames : ClickAddInstance(host, name)
  \/ TimerFire

SpecEdits == InitEdits /\ [][NextEdits]_vars

\* the loaded page when the user toggles the checkbox and clicks a save
\* button only while no save is in flight
NextSettled ==
  \/ \E i \in 1..Len(instances) : ToggleCheckbox(i) /\ saves = <<>>
  \/ ClickSaveInstance /\ saves = <<>>
  \/ ClickSaveGroupName /\ saves = <<>>
  \/ \E i \in 1..Len(saves) : SetAllowedOriginsResolve(i)
  \/ \E i \in 1..Len(saves) : SetAllowedOriginsReject(i)
  \/ \E i \in 1..Len(saves) : SaveOptionsResolve(i)
  \/ \E i \in 1..Len(saves) : SaveOptionsReject(i)
  \/ TimerFire

SpecSettled == InitOverlap /\ [][NextSettled]_vars

\* the page, loaded from a document of one instance and one group name,
\* when the user adds to both lists and saves, and every request succeeds
NextValid ==
  \/ LoadResolve
  \/ LoadReject
  \/ \E name \in TypedGroups : ClickAddGroup(name)
  \/ \E host \in TypedHosts, name \in {NameA} : ClickAddInstance(host, name)
  \/ ClickSaveInstance /\ Len(saves') <= MaxInFlight
  \/ ClickSaveGroupName /\ Len(saves') <= MaxInFlight
  \/ \E i \in 1..Len(saves) : SetAllowedOriginsResolve(i)
  \/ \E i \in 1..Len(saves) : SaveOptionsResolve(i)
  \/ TimerFire

SpecValid == InitStatus /\ [][NextValid]_vars

(***************************************************************************)
(* Notions the claims are stated with.                                     *)
(***************************************************************************)
Range(s) == {s[i] : i \in 1..Len(s)}

NoDuplicates(s) == \A i, j \in 1..Len(s) : i # j => s[i] # s[j]

HostsOf(insts) == [i \in 1..Len(insts) |-> insts[i].host]

\* the indices of insts whose host is host
IndicesOf(insts, host) == {i \in 1..Len(insts) : insts[i].host = host}

\* the last call of the sequence calls that names host
LastCall(calls, host) ==
  calls[CHOOSE i \in IndicesOf(calls, host) :
          \A j \in IndicesOf(calls, host) : j <= i]

\* host is added a second time by the calls: it is in the list already, or
\* the calls name it more than once
AddedAgain(calls, host) ==
  \/ IndicesOf(instances, host) # {}
  \/ Cardinality(IndicesOf(calls, host)) > 1

\* after a step that made the calls addGerritInstance(c.host, c.name,
\* c.enabled) in order, every host they name has exactly one instance, which
\* bears the name of the last call for it and the value enabledAfter gives
AfterCalls(calls, enabledAfter(_)) ==
  \A host \in Range(HostsOf(calls)) :
    /\ Cardinality(IndicesOf(instances', host)) = 1
    /\ \A i \in IndicesOf(instances', host) :
         /\ instances'[i].name = LastCall(calls, host).name
         /\ instances'[i].enabled = enabledAfter(host)
         /\ checked'[i] = enabledAfter(host)

\* the steps that call addGerritInstance, with the calls they make: the
\* restore of the load, and the click that accepts and clears its fields
AddSteps(after(_)) ==
  /\ LoadResolve => after(fetched.instances)
  /\ \A host \in TypedHosts, name \in TypedNames :
       ClickAddInstance(host, name) /\ hostField' = Empty /\ nameField' = Empty
         => after(<<[host |-> host, name |-> name, enabled |-> TRUE]>>)

(***************************************************************************)
(* C1, as amended: when addGerritInstance(host, name, enabled) is called   *)
(* for a host that the list holds already, the list still holds exactly    *)
(* one instance for that host, whose name is the name of the second call   *)
(* and whose enabled is true whatever the enabled of the second call; a    *)
(* host added once has one instance with the name and enabled of its call, *)
(* so two different hosts yield two distinct instances.                    *)
(***************************************************************************)
C1EnabledAmended(calls, host) ==
  IF AddedAgain(calls, host) THEN TRUE ELSE LastCall(calls, host).enabled

C1AfterAmended(calls) ==
  /\ AfterCalls(calls, LAMBDA host : C1EnabledAmended(calls, host))
  /\ Len(instances') =
       Len(instances)
         + Cardinality(Range(HostsOf(calls)) \ Range(HostsOf(instances)))

C1_SecondAddRenamesAndEnables == [][AddSteps(C1AfterAmended)]_vars

\* C1 as stated: after the second call, enabled is the enabled of that call
C1AfterStated(calls) ==
  AfterCalls(calls, LAMBDA host : LastCall(calls, host).enabled)

\* (on a page whose persisted document names no host twice)
C1_SecondAddSetsEnabledArgument ==
  [][NoDuplicates(HostsOf(fetched.instances)) => AddSteps(C1AfterStated)]_vars

\* the load has restored a disabled HostB that the user had added before:
\* HostB stands before the other restored host and bears the restored name
C1_Witness ==
  /\ loadState = "resolved"
  /\ fetched.instances =
       << [host |-> HostFtp, name |-> NameB, enabled |-> FALSE],
          [host |-> HostB, name |-> NameB, enabled |-> FALSE] >>
  /\ instances =
       << [host |-> HostB, name |-> NameB, enabled |-> TRUE],
          [host |-> HostFtp, name |-> NameB, enabled |-> FALSE] >>

(***************************************************************************)
(* C5: in every reachable state the hosts of the instance list are         *)
(* pairwise distinct, under any interleaving of add-instance clicks,       *)
(* checkbox toggles and the resolution of loadOptions.                     *)
(***************************************************************************)
C5_HostsDistinct == NoDuplicates(HostsOf(instances))

\* the user had added HostB before the load restored a document holding it
C5_Witness ==
  /\ loadState = "resolved"
  /\ HostsOf(fetched.instances) = <<HostFtp, HostB>>
  /\ HostsOf(instances) = <<HostB, HostFtp>>

(***************************************************************************)
(* C6: when loadOptions resolves on an empty model with a document whose   *)
(* hosts are pairwise distinct and whose group names are pairwise          *)
(* distinct, instances() and groupNames() equal the sequences of the       *)
(* document: same length, same order, same host, name and enabled.         *)
(***************************************************************************)
C6_LoadRestoresDocument ==
  [][ /\ LoadResolve
      /\ instances = <<>>
      /\ groupNames = <<>>
      /\ NoDuplicates(HostsOf(fetched.instances))
      /\ NoDuplicates(fetched.groupNames)
      => /\ instances' = fetched.instances
         /\ groupNames' = fetched.groupNames
         /\ loadState' = "resolved" ]_vars

\* a document of two instances, the second disabled, and two group names has
\* been restored as it is
C6_Witness ==
  /\ loadState = "resolved"
  /\ HostsOf(fetched.instances) = <<HostFtp, HostB>>
  /\ ~fetched.instances[2].enabled
  /\ Len(fetched.groupNames) = 2
  /\ instances = fetched.instances
  /\ groupNames = fetched.groupNames

(***************************************************************************)
(* C10: a click on the add-instance button applies                         *)
(* addGerritInstance(host, name, true) and clears both fields if and only  *)
(* if the host field matches the origin pattern over its whole length and  *)
(* the name field is not empty (on an empty model: one instance, checkbox  *)
(* checked, instances() is exactly that triple); otherwise instances() is  *)
(* unchanged, both fields keep their values and the status is 'Incorrect   *)
(* instance values.'.                                                      *)
(***************************************************************************)
C10_Accepted(host, name) ==
  /\ ORIGIN_REGEXP(host).matched
  /\ ORIGIN_REGEXP(host).whole = host
  /\ name # Empty

C10_ClickAddsOnlyValid ==
  [][ \A host \in TypedHosts, name \in TypedNames :
        ClickAddInstance(host, name) =>
          IF C10_Accepted(host, name)
            THEN /\ Cardinality(IndicesOf(instances', host)) = 1
                 /\ \A i \in IndicesOf(instances', host) :
                      /\ instances'[i].name = name
                      /\ instances'[i].enabled
                      /\ checked'[i]
                 /\ \A i \in 1..Len(instances) :
                      instances[i].host # host => instances'[i] = instances[i]
                 /\ instances = <<>> =>
                      /\ instances' = <<[host |-> host, name |-> name,
                                         enabled |-> TRUE]>>
                      /\ checked' = <<TRUE>>
                 /\ hostField' = Empty
                 /\ nameField' = Empty
                 /\ status' = status
            ELSE /\ instances' = instances
                 /\ checked' = checked
                 /\ hostField' = host
                 /\ nameField' = name
                 /\ status' = StatusIncorrectInstance ]_vars

\* a host of which the pattern matches all but the last character has been
\* refused
C10_Witness ==
  /\ status = StatusIncorrectInstance
  /\ hostField = HostSlash
  /\ nameField = NameA

(***************************************************************************)
(* C4: in every reachable state the group-name list contains no string     *)
(* twice; adding a string that is already present, from the add-group      *)
(* click or from the restore of loadOptions, leaves one entry for it and   *)
(* the entries before it as they were.                                     *)
(***************************************************************************)
C4_GroupNamesDistinct ==
  /\ []NoDuplicates(groupNames)
  /\ [][ /\ \A name \in TypedGroups :
              ClickAddGroup(name) /\ name \in Range(groupNames)
                => groupNames' = groupNames
         /\ LoadResolve =>
              /\ SubSeq(groupNames', 1, Len(groupNames)) = groupNames
              /\ Range(groupNames') \subseteq
                   Range(groupNames) \cup Range(fetched.groupNames) ]_vars

\* the add-group click has been given the one name of the list
C4_Witness ==
  /\ groupNames = <<GroupFull>>
  /\ groupField = GroupFull

(***************************************************************************)
(* C8: the add-group click accepts a name only if it is three runs of      *)
(* word characters optionally separated by literal '@' and literal '.':    *)
(* "foo@bar.baz" is added; "foo/bar" is not added and gives the status     *)
(* 'Incorrect group name values.'.                                         *)
(***************************************************************************)
\* ^[a-zA-Z0-9_-]+@*[a-zA-Z0-9_-]+\.*[a-zA-Z0-9_-]+$ as the claim reads it
C8_ThreeRuns(s) ==
  \E i \in 1..Len(s) : \E j \in i..Len(s) : \E k \in (j + 1)..Len(s) :
  \E l \in k..(Len(s) - 1) :
    /\ AllIn(s, 1, i, WORD_CHS)
    /\ AllIn(s, i + 1, j, {"@"})
    /\ AllIn(s, j + 1, k, WORD_CHS)
    /\ AllIn(s, k + 1, l, {"."})
    /\ AllIn(s, l + 1, Len(s), WORD_CHS)

C8_ClickAcceptsThreeRunsOnly ==
  [][ \A name \in TypedGroups :
        ClickAddGroup(name) =>
          IF C8_ThreeRuns(name)
            THEN name \in Range(groupNames')
            ELSE /\ groupNames' = groupNames
                 /\ status' = StatusIncorrectGroup ]_vars

(***************************************************************************)
(* C9: when addGroupName is called with a name already in the list, the    *)
(* status becomes 'Already have this group name', nothing is inserted and  *)
(* the call completes normally: the click listener goes on to clear its    *)
(* field, and the restore loop of loadOptions goes on with the other       *)
(* names.                                                                  *)
(***************************************************************************)
C9_DuplicateReported ==
  [][ /\ \A name \in TypedGroups :
           ClickAddGroup(name) /\ GROUP_NAME_REGEXP(name) /\ C8_ThreeRuns(name)
             /\ name \in Range(groupNames)
             => /\ status' = StatusDuplicate
                /\ groupNames' = groupNames
                /\ groupField' = Empty
      /\ LoadResolve /\ NoDuplicates(fetched.groupNames) =>
           /\ loadState' = "resolved"
           /\ Range(fetched.groupNames) \subseteq Range(groupNames') ]_vars

(***************************************************************************)
(* C2, as amended: the list saveInstanceOptions passes to                  *)
(* setAllowedOrigins holds, for every instance with enabled = true whose   *)
(* host the origin pattern matches, the scheme+host capture group          *)
(* followed by "/*", and nothing else: nothing for an instance with        *)
(* enabled = false, nothing for a host the pattern does not match.         *)
(***************************************************************************)
\* the instances that are enabled
C2_Enabled == {i \in 1..Len(instances) : instances[i].enabled}

\* the enabled instances whose host the origin pattern matches
C2_EnabledMatched == {i \in C2_Enabled : ORIGIN_REGEXP(instances[i].host).matched}

\* the run a click on 'save-instance-button' has just started
C2_NewRun == saves'[Len(saves')]

C2_OriginsOfEnabledMatched ==
  [][ ClickSaveInstance =>
        /\ C2_NewRun.pc = "allow"
        /\ Len(C2_NewRun.origins) = Cardinality(C2_EnabledMatched)
        /\ Range(C2_NewRun.origins) =
             { ORIGIN_REGEXP(instances[i].host).origin \o <<"/", "*">> :
                 i \in C2_EnabledMatched } ]_vars

\* C2 as stated: the list is the capture groups of the enabled instances
C2_OriginsOfEnabled ==
  [][ ClickSaveInstance =>
        Range(C2_NewRun.origins) =
          { ORIGIN_REGEXP(instances[i].host).origin : i \in C2_Enabled } ]_vars

\* an allowlist request is pending for the one matched host of two enabled
\* instances
C2_Witness ==
  /\ Len(instances) = 2
  /\ instances[1].host = HostB /\ instances[1].enabled
  /\ instances[2].host = HostFtp /\ instances[2].enabled
  /\ Len(saves) = 1
  /\ saves[1].pc = "allow"
  /\ saves[1].origins = << <<"h","t","t","p","s",":","/","/","b","/","*">> >>

(***************************************************************************)
(* C3: saveGroupNameOptions issues no saveOptions request when a group     *)
(* name of the model fails the group-name pattern: the durable document    *)
(* is left as it is and the status reports the invalid names.              *)
(***************************************************************************)
C3_Reports(names) == <<"Invalid group names: ">> \o Join(names)

C3_NoPersistWithInvalidName ==
  [][ /\ ClickSaveGroupName
      /\ \E name \in Range(groupNames) : ~C8_ThreeRuns(name)
      => /\ saves' = saves
         /\ stored' = stored
         /\ \E names \in SeqsUpTo(Range(groupNames), Len(groupNames)) :
              /\ \A name \in Range(groupNames) :
                   ~C8_ThreeRuns(name) => name \in Range(names)
              /\ status' = C3_Reports(names) ]_vars

\* C3 for the names GROUP_NAME_REGEXP itself rejects
C3_NoPersistWithRejectedName ==
  [][ /\ ClickSaveGroupName
      /\ \E name \in Range(groupNames) : ~GROUP_NAME_REGEXP(name)
      => /\ saves' = saves
         /\ stored' = stored
         /\ status' # <<>>
         /\ status'[1] = "Invalid group names: " ]_vars

(***************************************************************************)
(* C7: in every run of saveInstanceOptions the saveOptions request is      *)
(* issued only when setAllowedOrigins has resolved; if setAllowedOrigins   *)
(* rejects, no saveOptions request is issued; 'Options saved.' is set only *)
(* when saveOptions has resolved; and if either step rejects the status    *)
(* becomes the string form of its error and the run ends.                  *)
(***************************************************************************)
\* the runs of saveInstanceOptions whose saveOptions request is pending
C7_Persisting(runs) ==
  {i \in 1..Len(runs) : runs[i].kind = "instance" /\ runs[i].pc = "persist"}

C7_SaveInstanceSequence ==
  [][ /\ Cardinality(C7_Persisting(saves')) > Cardinality(C7_Persisting(saves))
           => \E i \in 1..Len(saves) :
                /\ saves[i].kind = "instance"
                /\ saves[i].pc = "allow"
                /\ allowed' = saves[i].origins
                /\ saves' = [saves EXCEPT ![i].pc = "persist",
                                          ![i].doc = Document]
      /\ \A i \in 1..Len(saves) :
           saves[i].kind = "instance" /\ saves' = Remove(saves, i)
             => IF saves[i].pc = "allow"
                  THEN /\ status' = ErrorString(ErrPermission)
                       /\ stored' = stored
                       /\ allowed' = allowed
                  ELSE \/ /\ status' = StatusSaved
                          /\ stored' = saves[i].doc
                          /\ allowed' = allowed
                       \/ /\ status' = ErrorString(ErrStorage)
                          /\ stored' = stored
                          /\ allowed' = allowed
      /\ status' = StatusSaved /\ timers' = timers + 1
           => \E i \in 1..Len(saves) :
                /\ saves[i].pc = "persist"
                /\ saves' = Remove(saves, i)
                /\ stored' = saves[i].doc ]_vars

\* setAllowedOrigins has rejected: the run has ended with the error as the
\* status and the durable document is the one the page was loaded from
C7_Witness ==
  /\ status = ErrorString(ErrPermission)
  /\ saves = <<>>
  /\ stored = fetched
  /\ instances # <<>>

(***************************************************************************)
(* C11: every status message is transient.  Whenever no timer of           *)
(* setStatusText is pending the status text is empty; an empty status      *)
(* text becomes non-empty only by a call of setStatusText; and, the timer  *)
(* callbacks being run, if the calls of setStatusText come to an end then  *)
(* the status text is eventually empty for good.                           *)
(***************************************************************************)
\* a step that calls setStatusText
C11_Call == timers' = timers + 1

C11_StatusTransient ==
  /\ [](timers = 0 => status = <<>>)
  /\ [][status = <<>> /\ status' # <<>> => C11_Call]_vars
  /\ []<><<C11_Call>>_vars \/ <>[](status = <<>> /\ timers = 0)

\* a refused click and a completed save have set a status each, and both
\* timers have fired
C11_Witness ==
  /\ hostField = HostFtp
  /\ loadState = "failed"
  /\ stored = EmptyDocument
  /\ saves = <<>>
  /\ timers = 0
  /\ status = <<>>

(***************************************************************************)
(* C12: under any interleaving of overlapping saves with edits, the        *)
(* durable document is a wholesale snapshot.  Every saveOptions request    *)
(* carries the whole model {instances, groupNames} of the moment it is     *)
(* issued; no edit and no other run changes the document of a pending      *)
(* request; and the durable document changes only when a request           *)
(* completes, to the whole document of that request, whichever request was *)
(* issued last.                                                            *)
(***************************************************************************)
\* the saveOptions requests that are pending among runs
C12_Pending(runs) == {i \in 1..Len(runs) : runs[i].pc = "persist"}

C12_WholesaleSnapshot ==
  [][ /\ ClickSaveGroupName /\ saves' # saves =>
           /\ SubSeq(saves', 1, Len(saves)) = saves
           /\ saves'[Len(saves')].pc = "persist"
           /\ saves'[Len(saves')].doc = Document
      /\ \A i \in 1..Len(saves) :
           SetAllowedOriginsResolve(i) =>
             /\ saves'[i].doc = Document
             /\ \A j \in 1..Len(saves) : j # i => saves'[j] = saves[j]
      /\ model' # model => saves' = saves /\ stored' = stored
      /\ Cardinality(C12_Pending(saves')) < Cardinality(C12_Pending(saves)) =>
           \E i \in C12_Pending(saves) :
             /\ saves' = Remove(saves, i)
             /\ stored' = saves[i].doc \/ stored' = stored
      /\ \A i \in 1..Len(saves) :
           SaveOptionsResolve(i) => stored' = saves[i].doc
      /\ stored' # stored =>
           \E i \in C12_Pending(saves) :
             /\ saves' = Remove(saves, i)
             /\ stored' = saves[i].doc ]_vars

\* of two overlapping requests that carry different documents one has
\* completed and the other is still pending
C12_Witness ==
  /\ status = StatusSaved
  /\ ~stored.instances[1].enabled
  /\ Len(saves) = 1
  /\ saves[1].pc = "persist"
  /\ saves[1].doc.instances[1].enabled
  /\ ~instances[1].enabled

(***************************************************************************)
(* C13: re-saving repairs divergence.  When a run of saveInstanceOptions   *)
(* that no other run overlaps completes with both steps successful on a    *)
(* model that is the one of its click, the allowlist is the origins of     *)
(* exactly the enabled instances of the durable document, whatever the     *)
(* allowlist and the durable document were before (in particular after a   *)
(* run whose saveOptions was rejected); and a run on the model of the last *)
(* successful run requests the same allowlist and the same document.       *)
(***************************************************************************)
\* the allowlist and the durable document differ
C13_Diverged == allowed # Origins(stored.instances)

\* the durable state is the one a successful run on the present model left
C13_SavedModel == stored = Document /\ allowed = Origins(instances)

C13_ResaveRepairs ==
  [][ /\ \A i \in 1..Len(saves) :
           /\ SaveOptionsResolve(i)
           /\ saves[i].kind = "instance"
           /\ saves[i].doc = Document
           /\ saves[i].origins = Origins(instances)
           => /\ stored' = Document
              /\ allowed' = Origins(stored'.instances)
              /\ ~C13_Diverged'
      /\ ClickSaveInstance /\ C13_SavedModel =>
           saves'[Len(saves')].origins = allowed
      /\ \A i \in 1..Len(saves) :
           /\ SetAllowedOriginsResolve(i)
           /\ C13_SavedModel
           /\ saves[i].origins = Origins(instances)
           => /\ allowed' = allowed
              /\ saves'[i].doc = stored
      /\ \A i \in 1..Len(saves) :
           /\ SaveOptionsResolve(i)
           /\ C13_SavedModel
           /\ saves[i].doc = Document
           => /\ stored' = stored
              /\ allowed' = allowed ]_vars

\* the saveOptions of an earlier run was rejected after the allowlist had
\* been updated, and the run that repeats the save on the same model has
\* both its requests issued
C13_Witness ==
  /\ status = ErrorString(ErrStorage)
  /\ C13_Diverged
  /\ Len(saves) = 1
  /\ saves[1].pc = "persist"
  /\ saves[1].doc = Document
  /\ saves[1].origins = allowed
  /\ allowed = Origins(instances)

(***************************************************************************)
(* C14: when the group-name list is empty, saveGroupNameOptions issues no  *)
(* saveOptions request and sets the status 'Nothing to save', whatever the *)
(* instance list holds; when the list is not empty and GROUP_NAME_REGEXP   *)
(* accepts every name, it issues exactly one saveOptions request, which    *)
(* carries the whole document {instances, groupNames}, and the run ends    *)
(* with the status 'Options saved.' when the request resolves and with the *)
(* string form of the error when it rejects.                               *)
(***************************************************************************)
C14_SaveGroupNameBranches ==
  [][ /\ ClickSaveGroupName /\ groupNames = <<>> =>
           /\ saves' = saves
           /\ stored' = stored
           /\ status' = StatusNothing
      /\ /\ ClickSaveGroupName
         /\ groupNames # <<>>
         /\ \A name \in Range(groupNames) : GROUP_NAME_REGEXP(name)
         => /\ saves' = Append(saves, saves'[Len(saves')])
            /\ saves'[Len(saves')].kind = "group"
            /\ saves'[Len(saves')].pc = "persist"
            /\ saves'[Len(saves')].doc = Document
            /\ status' = status
            /\ stored' = stored
      /\ \A i \in 1..Len(saves) :
           saves[i].kind = "group" /\ saves' = Remove(saves, i) =>
             \/ /\ SaveOptionsResolve(i)
                /\ status' = StatusSaved
                /\ stored' = saves[i].doc
             \/ /\ SaveOptionsReject(i)
                /\ status' = ErrorString(ErrStorage)
                /\ stored' = stored ]_vars

\* a click with an instance but no group name has set 'Nothing to save';
\* the load has then restored a group name and the next click has issued
\* the request
C14_Witness ==
  /\ status = StatusNothing
  /\ instances # <<>>
  /\ groupNames = <<GroupFull>>
  /\ Len(saves) = 1
  /\ saves[1].kind = "group"
  /\ saves[1].doc = Document

(***************************************************************************)
(* C15: the in-memory lists are append-only.  Across every step the        *)
(* sequence of hosts of instances() before the step is a prefix of the     *)
(* sequence after it, and groupNames() before the step is a prefix of      *)
(* groupNames() after it; every instance has its checkbox at its own       *)
(* index, before and after; so of an instance that exists only name and    *)
(* enabled may change.                                                     *)
(***************************************************************************)
C15_Prefix(s, t) == Len(s) <= Len(t) /\ SubSeq(t, 1, Len(s)) = s

C15_AppendOnly ==
  [][ /\ C15_Prefix(HostsOf(instances), HostsOf(instances'))
      /\ C15_Prefix(groupNames, groupNames')
      /\ Len(checked) = Len(instances)
      /\ Len(checked') = Len(instances')
      /\ \A i \in 1..Len(instances) :
           checked'[i] # checked[i] => instances'[i].enabled = checked'[i] ]_vars

\* the user had added HostB and "foo/bar" before the load: the load has
\* renamed HostB where it stood and appended the rest of the document
C15_Witness ==
  /\ loadState = "resolved"
  /\ HostsOf(instances) = <<HostB, HostFtp>>
  /\ instances[1].name = NameB
  /\ groupNames = <<GroupSlash, GroupFull, GroupShort>>

(***************************************************************************)
(* C16: whenever a run of saveInstanceOptions completes with both steps    *)
(* successful, the allowlist it requested is the origins of exactly the    *)
(* instances that are enabled in the document it persisted, also when the  *)
(* user toggles a checkbox between the click and the call of saveOptions.  *)
(***************************************************************************)
C16_AllowlistOfPersistedDocument ==
  [][ \A i \in 1..Len(saves) :
        SaveOptionsResolve(i) /\ saves[i].kind = "instance" =>
          saves[i].origins = Origins(saves[i].doc.instances) ]_vars

(***************************************************************************)
(* C17: whenever no save is in flight and the last save succeeded, every   *)
(* instance that is enabled in the durable document has its origin in the  *)
(* allowlist granted last; a successful saveGroupNameOptions keeps it so.  *)
(***************************************************************************)
\* every enabled instance of doc that has an origin has it in the allowlist
C17_EnabledAllowed(doc, allowlist) ==
  \A k \in 1..Len(doc.instances) :
    LET match == ORIGIN_REGEXP(doc.instances[k].host)
    IN  doc.instances[k].enabled /\ match.matched =>
          match.origin \o <<"/", "*">> \in Range(allowlist)

C17_EnabledOriginsAllowed ==
  [][ \A i \in 1..Len(saves) :
        SaveOptionsResolve(i) /\ saves' = <<>> =>
          C17_EnabledAllowed(stored', allowed') ]_vars

(***************************************************************************)
(* C18: durable entries are never lost by a save.  A host or a group name  *)
(* that the durable document contains is contained in every document that  *)
(* is persisted later, also when the save is clicked before loadOptions    *)
(* has resolved or after the fetch has failed.                             *)
(***************************************************************************)
C18_DurableEntriesKept ==
  [][ /\ Range(HostsOf(stored.instances))
           \subseteq Range(HostsOf(stored'.instances))
      /\ Range(stored.groupNames) \subseteq Range(stored'.groupNames) ]_vars

(***************************************************************************)
(* C19: validity is preserved end to end.  When the durable document the   *)
(* page is loaded from holds only group names that match the group-name    *)
(* pattern and only hosts that the origin pattern matches over their whole *)
(* length, then in every reachable state every group name and every host   *)
(* of the model, and of every document passed to saveOptions, matches too; *)
(* so saveInstanceOptions skips no enabled instance for its host.          *)
(***************************************************************************)
\* the origin pattern matches host over its whole length
C19_HostValid(host) ==
  ORIGIN_REGEXP(host).matched /\ ORIGIN_REGEXP(host).whole = host

\* every host of doc is valid and groupValid accepts every group name of doc
C19_DocumentValid(doc, groupValid(_)) ==
  /\ \A i \in 1..Len(doc.instances) : C19_HostValid(doc.instances[i].host)
  /\ \A i \in 1..Len(doc.groupNames) : groupValid(doc.groupNames[i])

\* the model and the documents of the pending saveOptions requests are valid
C19_AllValid(groupValid(_)) ==
  /\ C19_DocumentValid(Document, groupValid)
  /\ \A i \in 1..Len(saves) :
       saves[i].pc = "persist" => C19_DocumentValid(saves[i].doc, groupValid)
  /\ C19_DocumentValid(stored, groupValid)
  /\ Len(Origins(instances)) = Cardinality(C2_Enabled)

C19_ValidityPreserved ==
  C19_DocumentValid(fetched, C8_ThreeRuns) => C19_AllValid(C8_ThreeRuns)

\* C19 for the group names GROUP_NAME_REGEXP accepts
C19_AcceptedPreserved ==
  C19_DocumentValid(fetched, GROUP_NAME_REGEXP) => C19_AllValid(GROUP_NAME_REGEXP)

====
